---- MODULE Spec2Model ----
(***************************************************************************)
(* ubl-auth: verification of Ed25519-signed compact tokens against a       *)
(* JWKS document held in a TTL cache (src/src/lib.rs).                     *)
(*                                                                         *)
(* Abstractions.  A token is the triple of its dot-separated segments; a   *)
(* segment is described by how the decoder treats it (base64/UTF-8 fails,  *)
(* JSON fails, or the JSON value it holds).  An Ed25519 signature is the   *)
(* pair (signing key, signed bytes); verify_strict accepts exactly the     *)
(* signatures made by the key over the bytes (the primitive is external).  *)
(* i64 is scaled down to the range MinInt..MaxInt; an overflowing `+`      *)
(* panics when overflow checks are on (debug profile) and wraps when they  *)
(* are off (release profile).                                              *)
(***************************************************************************)
EXTENDS Integers, Sequences, FiniteSets, TLC

VARIABLES
    cache,      \* JwksCache.inner: location -> JwksCacheEntry, or NoEntry
    ttl_secs,   \* JwksCache.ttl_secs, fixed by JwksCache::new
    clock,      \* the wall clock read by now_ts()
    build,      \* "debug" (overflow checks on) or "release" (wrapping)
    pc,         \* per caller: position inside verify_ed25519_jwt_with_cache
    tok,        \* per caller: the token argument
    uri,        \* per caller: the jwks_uri argument
    opts,       \* per caller: the VerifyOptions argument
    jwks,       \* per caller: the local `jwks` (fetched or read from cache)
    res,        \* per caller: the Result returned (kind and claims)
    hist,       \* per caller: what the call did (fetches, stores, cache reads)
    got,        \* the last direct put and the get_fresh observation after it
    net         \* per location: the answers the transport can give to a fetch

vars == <<cache, ttl_secs, clock, build, pc, tok, uri, opts, jwks, res, hist, got, net>>

-----------------------------------------------------------------------------
(* Bounds of the model *)

\* the scaled-down i64 is -(MaxInt+1) .. MaxInt
MaxInt == 3
\* the wall clock runs 0 .. MaxClock
MaxClock == 3
\* longest key directory enumerated by the key-resolution specification
MaxKeys == 2

MinInt == -MaxInt - 1
I64 == MinInt..MaxInt

Procs == {1, 2}
Locations == {"u1", "u2"}

-----------------------------------------------------------------------------
(* Option values and JSON field values *)

None == <<>>
Some(v) == <<v>>
IsSome(o) == Len(o) = 1
Unwrap(o) == o[1]

\* a JSON field that is missing, or present with a non-string value
Absent == "<absent>"
NonString == "<nonstring>"

\* Aud: untagged enum, One(String) | Many(Vec<String>); NoAud is aud: None
NoAud == [k |-> "none", v |-> <<>>]
AudOne(s) == [k |-> "one", v |-> <<s>>]
AudMany(s) == [k |-> "many", v |-> s]

\* VerifyOptions
VerifyOptions(leeway, issuer, audience, now) ==
    [leeway_secs |-> leeway, issuer |-> issuer, audience |-> audience, now |-> now]

\* Jwk and Jwks: x is the key material as the decoder treats it
XAbsent == "<absent>"
XBadB64 == "<badb64>"
XWrongLen == "<wronglen>"
XBadPoint == "<badpoint>"
Keys == {"A", "B"}
Jwk(kty, crv, x, kid) == [kty |-> kty, crv |-> crv, x |-> x, kid |-> kid]

\* Result kinds
Ok == "Ok"
Panic == "Panic"

-----------------------------------------------------------------------------
(* Tokens *)

\* the header segment: enc says how base64/UTF-8/JSON decoding ends
Header(enc, alg, kid) == [enc |-> enc, alg |-> alg, kid |-> kid]
\* the payload segment
Payload(enc, sub, iss, aud, exp, nbf, iat) ==
    [enc |-> enc, sub |-> sub, iss |-> iss, aud |-> aud, exp |-> exp, nbf |-> nbf, iat |-> iat]
\* the signature segment: 64 bytes made by `signer` over `msg`, or malformed
Sig(enc, signer, msg) == [enc |-> enc, signer |-> signer, msg |-> msg]
Token(parts, hdr, pld, sig) == [parts |-> parts, hdr |-> hdr, pld |-> pld, sig |-> sig]

\* what a signer produces: format!("{}.{}", hdr, pld) signed with key k
Sign(k, hdr, pld) == Sig("ok", k, <<hdr, pld>>)
SignedToken(k, hdr, pld) == Token(3, hdr, pld, Sign(k, hdr, pld))

-----------------------------------------------------------------------------
(* now_ts and the cache: JwksCache::put, JwksCache::get_fresh *)

NoEntry == [present |-> FALSE, jwks |-> <<>>, fetched_at |-> 0]
JwksCacheEntry(j, at) == [present |-> TRUE, jwks |-> j, fetched_at |-> at]

\* now_ts(): the wall clock in seconds
now_ts == clock

\* m.insert(uri, JwksCacheEntry{ jwks, fetched_at: now_ts() }) on map m
put(m, u, j) == [m EXCEPT ![u] = JwksCacheEntry(j, now_ts)]

\* mutant of get_fresh: an entry is returned whatever its age
get_fresh_any_age(m, u) ==
    IF m[u].present
    THEN Some(m[u].jwks)
    ELSE None

\* mutant of get_fresh: an entry whose age equals the TTL is already stale
get_fresh_strict(m, u) ==
    IF m[u].present /\ now_ts - m[u].fetched_at < ttl_secs
    THEN Some(m[u].jwks)
    ELSE None

\* Some(entry.jwks.clone()) when an entry exists and its age is within the TTL
get_fresh(m, u) ==
    IF m[u].present /\ now_ts - m[u].fetched_at <= ttl_secs
    THEN Some(m[u].jwks)
    ELSE None

-----------------------------------------------------------------------------
(* split_and_decode *)

Pass == "pass"

\* mutant of split_and_decode: the segments are decoded before they are counted
split_and_decode_count_last(t) ==
    IF t.hdr.enc = "badb64" THEN "Base64"
    ELSE IF t.pld.enc = "badb64" THEN "Base64"
    ELSE IF t.sig.enc = "badb64" THEN "Base64"
    ELSE IF t.sig.enc = "badlen" THEN "Signature"
    ELSE IF t.hdr.enc = "badjson" THEN "Json"
    ELSE IF t.pld.enc = "badjson" THEN "Json"
    ELSE IF t.parts # 3 THEN "BadFormat"
    ELSE Pass

\* the first error of split_and_decode, in the order of its statements, or Pass
split_and_decode(t) ==
    IF t.parts # 3 THEN "BadFormat"
    ELSE IF t.hdr.enc = "badb64" THEN "Base64"
    ELSE IF t.pld.enc = "badb64" THEN "Base64"
    ELSE IF t.sig.enc = "badb64" THEN "Base64"
    ELSE IF t.sig.enc = "badlen" THEN "Signature"
    ELSE IF t.hdr.enc = "badjson" THEN "Json"
    ELSE IF t.pld.enc = "badjson" THEN "Json"
    ELSE Pass

\* the signing input: format!("{}.{}", parts[0], parts[1]), the original segments
signing_input(t) == <<t.hdr, t.pld>>

\* header.get("alg") / header.get("kid") followed by as_str(): Some(string) or None
header_str(v) == IF v \in {Absent, NonString} THEN None ELSE Some(v)

\* mutant of check_header: the alg tag is compared without regard to case
check_header_nocase(t) ==
    IF split_and_decode(t) # Pass THEN split_and_decode(t)
    ELSE IF header_str(t.hdr.alg) = None THEN "Alg"
    ELSE IF Unwrap(header_str(t.hdr.alg)) \notin {"EdDSA", "eddsa"} THEN "Alg"
    ELSE IF header_str(t.hdr.kid) = None THEN "Kid"
    ELSE Pass

\* lines 128-132: decoding, then the alg check, then the kid check
check_header(t) ==
    IF split_and_decode(t) # Pass THEN split_and_decode(t)
    ELSE IF header_str(t.hdr.alg) = None THEN "Alg"
    ELSE IF Unwrap(header_str(t.hdr.alg)) # "EdDSA" THEN "Alg"
    ELSE IF header_str(t.hdr.kid) = None THEN "Kid"
    ELSE Pass

-----------------------------------------------------------------------------
(* key_by_kid and verify_strict *)

\* k.kid.as_deref().unwrap_or_default(): an absent kid reads as ""
k_kid(k) == IF k.kid = Absent THEN "" ELSE k.kid

\* B64URL.decode(x) then VerifyingKey::from_bytes: what one candidate record gives
\*   "skip"  - the record is passed over and the loop goes on
\*   "abort" - bytes[..].try_into().ok()? returns None from key_by_kid itself
\*   "key"   - the record's key is returned
candidate(k, kid) ==
    IF k.kty # "OKP" THEN "skip"
    ELSE IF k.crv # "Ed25519" THEN "skip"
    ELSE IF ~(k_kid(k) = kid \/ k_kid(k) = "") THEN "skip"
    ELSE IF k.x = XAbsent THEN "skip"
    ELSE IF k.x = XBadB64 THEN "skip"
    ELSE IF k.x = XWrongLen THEN "abort"
    ELSE IF k.x = XBadPoint THEN "skip"
    ELSE "key"

RECURSIVE key_from(_, _, _)
\* the for loop of key_by_kid from record i on
key_from(ks, i, kid) ==
    IF i > Len(ks) THEN None
    ELSE IF candidate(ks[i], kid) = "key" THEN Some(ks[i].x)
    ELSE IF candidate(ks[i], kid) = "abort" THEN None
    ELSE key_from(ks, i + 1, kid)

key_by_kid(j, kid) == key_from(j, 1, kid)

\* mutant of verify_strict: the signer is not compared with the resolved key
verify_strict_any_key(vk, msg, sig) == sig.msg = msg

\* vk.verify_strict(msg, sig): the signature was made by vk's key over msg
verify_strict(vk, msg, sig) == sig.signer = vk /\ sig.msg = msg

-----------------------------------------------------------------------------
(* Claims and check_claims *)

\* sub: String; iss: Option<String>, Absent standing for None; aud: Option<Aud>;
\* exp, nbf, iat: Option<i64>
Claims(sub, iss, aud, exp, nbf, iat) ==
    [sub |-> sub, iss |-> iss, aud |-> aud, exp |-> exp, nbf |-> nbf, iat |-> iat]

\* mutant of parse_claims: a missing sub is read as the empty string
parse_claims_default_sub(p) ==
    IF p.sub = NonString THEN None
    ELSE IF p.iss = NonString THEN None
    ELSE IF p.aud.k = "bad" THEN None
    ELSE Some(Claims(IF p.sub = Absent THEN "" ELSE p.sub, p.iss, p.aud, p.exp, p.nbf, p.iat))

\* serde_json::from_value::<Claims>(payload): None when the payload does not
\* map onto Claims (sub missing or not a string, a typed field of another type)
parse_claims(p) ==
    IF p.sub \in {Absent, NonString} THEN None
    ELSE IF p.iss = NonString THEN None
    ELSE IF p.aud.k = "bad" THEN None
    ELSE Some(Claims(p.sub, p.iss, p.aud, p.exp, p.nbf, p.iat))

\* i64 `+`: the sum, whether it leaves the range, and its two's-complement wrap
Overflows(a, b) == a + b < MinInt \/ a + b > MaxInt
Wrap(n) == ((n - MinInt) % (MaxInt - MinInt + 1)) + MinInt

\* mutant of aud_mismatch: only the first element of a list is compared
aud_mismatch_first(a, expected) ==
    \/ a.k = "none"
    \/ a.k = "one" /\ a.v[1] # expected
    \/ a.k = "many" /\ (Len(a.v) = 0 \/ a.v[1] # expected)

\* the match on c.aud of lines 205-210: TRUE when it returns Err(Audience)
aud_mismatch(a, expected) ==
    \/ a.k = "none"
    \/ a.k = "one" /\ a.v[1] # expected
    \/ a.k = "many" /\ ~(\E i \in 1..Len(a.v) : a.v[i] = expected)

\* check_claims: the first failing check in statement order, Panic when a sum
\* overflows under overflow checks, else Ok
check_claims(c, o) ==
    LET now == IF IsSome(o.now) THEN Unwrap(o.now) ELSE now_ts
        lw == o.leeway_secs
    IN  IF c.sub = "" THEN "MissingSub"
        ELSE IF IsSome(c.exp) /\ Overflows(Unwrap(c.exp), lw) /\ build = "debug" THEN Panic
        ELSE IF IsSome(c.exp) /\ now > Wrap(Unwrap(c.exp) + lw) THEN "Expired"
        ELSE IF IsSome(c.nbf) /\ Overflows(now, lw) /\ build = "debug" THEN Panic
        ELSE IF IsSome(c.nbf) /\ Wrap(now + lw) < Unwrap(c.nbf) THEN "NotYetValid"
        ELSE IF IsSome(c.iat) /\ Overflows(now, lw) /\ build = "debug" THEN Panic
        ELSE IF IsSome(c.iat) /\ Unwrap(c.iat) > Wrap(now + lw) THEN "NotYetValid"
        ELSE IF IsSome(o.issuer) /\ c.iss # Unwrap(o.issuer) THEN "Issuer"
        ELSE IF IsSome(o.audience) /\ aud_mismatch(c.aud, Unwrap(o.audience)) THEN "Audience"
        ELSE Ok

\* a Result<Claims, VerifyError>
Err(kind) == [kind |-> kind, claims |-> None]
Accepted(c) == [kind |-> Ok, claims |-> Some(c)]

\* mutant of resolve_and_verify: the claims are parsed and validated before
\* the signature is verified
resolve_and_verify_claims_first(t, j, o) ==
    LET vk == key_by_kid(j, Unwrap(header_str(t.hdr.kid)))
    IN  IF vk = None THEN Err("NoKey")
        ELSE IF parse_claims(t.pld) = None THEN Err("Json")
        ELSE IF check_claims(Unwrap(parse_claims(t.pld)), o) # Ok
             THEN Err(check_claims(Unwrap(parse_claims(t.pld)), o))
        ELSE IF ~verify_strict(Unwrap(vk), signing_input(t), t.sig) THEN Err("Signature")
        ELSE Accepted(Unwrap(parse_claims(t.pld)))

\* lines 139-145: key lookup in directory j, signature check, claim parsing,
\* claim validation
resolve_and_verify(t, j, o) ==
    LET vk == key_by_kid(j, Unwrap(header_str(t.hdr.kid)))
    IN  IF vk = None THEN Err("NoKey")
        ELSE IF ~verify_strict(Unwrap(vk), signing_input(t), t.sig) THEN Err("Signature")
        ELSE IF parse_claims(t.pld) = None THEN Err("Json")
        ELSE IF check_claims(Unwrap(parse_claims(t.pld)), o) # Ok
             THEN Err(check_claims(Unwrap(parse_claims(t.pld)), o))
        ELSE Accepted(Unwrap(parse_claims(t.pld)))

-----------------------------------------------------------------------------
(* The transport behind fetch_jwks, and the steps of one verification call *)

\* what ureq::get(uri).call() and serde_json::from_str(&body) can give
HttpError == [kind |-> "http", jwks |-> <<>>]
BadDocument == [kind |-> "json", jwks |-> <<>>]
Document(j) == [kind |-> "ok", jwks |-> j]

\* fetch_jwks on a response: the error it maps to, or Pass
fetch_jwks(r) ==
    IF r.kind = "http" THEN "JwksHttp"
    ELSE IF r.kind = "json" THEN "JwksJson"
    ELSE Pass

NoHist == [looked |-> 0, fetches |-> 0, stores |-> 0, resolved |-> 0, src |-> "none"]
NoResult == [kind |-> "none", claims |-> None]
NoToken == Token(0, Header("ok", Absent, Absent), Payload("ok", Absent, Absent, NoAud, None, None, None), Sig("badlen", "none", <<>>))
NoOpts == VerifyOptions(0, None, None, None)

\* a caller enters verify_ed25519_jwt_with_cache(t, u, cache, o)
Call(p, t, u, o) ==
    /\ pc[p] = "idle"
    /\ pc' = [pc EXCEPT ![p] = "start"]
    /\ tok' = [tok EXCEPT ![p] = t]
    /\ uri' = [uri EXCEPT ![p] = u]
    /\ opts' = [opts EXCEPT ![p] = o]
    /\ jwks' = [jwks EXCEPT ![p] = <<>>]
    /\ res' = [res EXCEPT ![p] = NoResult]
    /\ hist' = [hist EXCEPT ![p] = NoHist]
    /\ UNCHANGED <<cache, ttl_secs, clock, build, net, got>>

\* lines 128-132: split_and_decode, alg and kid checks; returns on the first error
Decode(p) ==
    /\ pc[p] = "start"
    /\ IF check_header(tok[p]) # Pass
       THEN /\ pc' = [pc EXCEPT ![p] = "done"]
            /\ res' = [res EXCEPT ![p] = Err(check_header(tok[p]))]
       ELSE /\ pc' = [pc EXCEPT ![p] = "lookup"]
            /\ UNCHANGED res
    /\ UNCHANGED <<cache, ttl_secs, clock, build, net, tok, uri, opts, jwks, hist, got>>

\* mutant of Lookup: a hit stamps the entry again with the current time
Lookup_refreshing(p) ==
    /\ pc[p] = "lookup"
    /\ IF IsSome(get_fresh(cache, uri[p]))
       THEN /\ jwks' = [jwks EXCEPT ![p] = Unwrap(get_fresh(cache, uri[p]))]
            /\ pc' = [pc EXCEPT ![p] = "resolve"]
            /\ hist' = [hist EXCEPT ![p].looked = @ + 1, ![p].src = "cache"]
            /\ cache' = [cache EXCEPT ![uri[p]].fetched_at = now_ts]
       ELSE /\ pc' = [pc EXCEPT ![p] = "fetch"]
            /\ hist' = [hist EXCEPT ![p].looked = @ + 1]
            /\ UNCHANGED <<jwks, cache>>
    /\ UNCHANGED <<ttl_secs, clock, build, net, tok, uri, opts, res, got>>

\* line 134: cache.get_fresh(jwks_uri) under the cache's lock
Lookup(p) ==
    /\ pc[p] = "lookup"
    /\ IF IsSome(get_fresh(cache, uri[p]))
       THEN /\ jwks' = [jwks EXCEPT ![p] = Unwrap(get_fresh(cache, uri[p]))]
            /\ pc' = [pc EXCEPT ![p] = "resolve"]
            /\ hist' = [hist EXCEPT ![p].looked = @ + 1, ![p].src = "cache"]
       ELSE /\ pc' = [pc EXCEPT ![p] = "fetch"]
            /\ hist' = [hist EXCEPT ![p].looked = @ + 1]
            /\ UNCHANGED jwks
    /\ UNCHANGED <<cache, ttl_secs, clock, build, net, tok, uri, opts, res, got>>

\* mutant of Fetch: a failed fetch evicts the entry of the location
Fetch_evicting(p, r) ==
    /\ pc[p] = "fetch"
    /\ r \in net[uri[p]]
    /\ hist' = [hist EXCEPT ![p].fetches = @ + 1]
    /\ IF fetch_jwks(r) # Pass
       THEN /\ pc' = [pc EXCEPT ![p] = "done"]
            /\ res' = [res EXCEPT ![p] = Err(fetch_jwks(r))]
            /\ cache' = [cache EXCEPT ![uri[p]] = NoEntry]
            /\ UNCHANGED jwks
       ELSE /\ pc' = [pc EXCEPT ![p] = "store"]
            /\ jwks' = [jwks EXCEPT ![p] = r.jwks]
            /\ UNCHANGED <<res, cache>>
    /\ UNCHANGED <<ttl_secs, clock, build, net, tok, uri, opts, got>>

\* line 135: fetch_jwks(jwks_uri)?, outside the lock; r is the transport's answer
Fetch(p, r) ==
    /\ pc[p] = "fetch"
    /\ r \in net[uri[p]]
    /\ hist' = [hist EXCEPT ![p].fetches = @ + 1]
    /\ IF fetch_jwks(r) # Pass
       THEN /\ pc' = [pc EXCEPT ![p] = "done"]
            /\ res' = [res EXCEPT ![p] = Err(fetch_jwks(r))]
            /\ UNCHANGED jwks
       ELSE /\ pc' = [pc EXCEPT ![p] = "store"]
            /\ jwks' = [jwks EXCEPT ![p] = r.jwks]
            /\ UNCHANGED res
    /\ UNCHANGED <<cache, ttl_secs, clock, build, net, tok, uri, opts, got>>

\* mutant of Store: the directory is written but the stamp of an entry already
\* present is kept (the entry is written field by field)
Store_torn(p) ==
    /\ pc[p] = "store"
    /\ cache' = [cache EXCEPT ![uri[p]] =
                    JwksCacheEntry(jwks[p], IF @.present THEN @.fetched_at ELSE now_ts)]
    /\ pc' = [pc EXCEPT ![p] = "resolve"]
    /\ hist' = [hist EXCEPT ![p].stores = @ + 1, ![p].src = "fetch"]
    /\ UNCHANGED <<ttl_secs, clock, build, net, tok, uri, opts, jwks, res, got>>

\* line 136: cache.put(jwks_uri, fetched.clone()) under the cache's lock
Store(p) ==
    /\ pc[p] = "store"
    /\ cache' = put(cache, uri[p], jwks[p])
    /\ pc' = [pc EXCEPT ![p] = "resolve"]
    /\ hist' = [hist EXCEPT ![p].stores = @ + 1, ![p].src = "fetch"]
    /\ UNCHANGED <<ttl_secs, clock, build, net, tok, uri, opts, jwks, res, got>>

\* mutant of Resolve: a call that stored a directory and then fails takes the
\* stored entry out of the cache again
Resolve_rollback(p) ==
    /\ pc[p] = "resolve"
    /\ res' = [res EXCEPT ![p] = resolve_and_verify(tok[p], jwks[p], opts[p])]
    /\ pc' = [pc EXCEPT ![p] = "done"]
    /\ hist' = [hist EXCEPT ![p].resolved = @ + 1]
    /\ cache' = IF hist[p].src = "fetch" /\ resolve_and_verify(tok[p], jwks[p], opts[p]).kind # Ok
                THEN [cache EXCEPT ![uri[p]] = NoEntry]
                ELSE cache
    /\ UNCHANGED <<ttl_secs, clock, build, net, tok, uri, opts, jwks, got>>

\* lines 139-145: key_by_kid, verify_strict, from_value, check_claims, return
Resolve(p) ==
    /\ pc[p] = "resolve"
    /\ res' = [res EXCEPT ![p] = resolve_and_verify(tok[p], jwks[p], opts[p])]
    /\ pc' = [pc EXCEPT ![p] = "done"]
    /\ hist' = [hist EXCEPT ![p].resolved = @ + 1]
    /\ UNCHANGED <<cache, ttl_secs, clock, build, net, tok, uri, opts, jwks, got>>

\* the caller has its Result and may call again
Return(p) ==
    /\ pc[p] = "done"
    /\ pc' = [pc EXCEPT ![p] = "idle"]
    /\ tok' = [tok EXCEPT ![p] = NoToken]
    /\ opts' = [opts EXCEPT ![p] = NoOpts]
    /\ jwks' = [jwks EXCEPT ![p] = <<>>]
    /\ res' = [res EXCEPT ![p] = NoResult]
    /\ hist' = [hist EXCEPT ![p] = NoHist]
    /\ UNCHANGED <<cache, ttl_secs, clock, build, net, uri, got>>

\* JwksCache::put called directly (pre-seeding)
Put(u, j) ==
    /\ cache' = put(cache, u, j)
    /\ got' = [got EXCEPT !.has_put = TRUE, !.put_uri = u, !.put_jwks = j, !.put_at = now_ts, !.seen = FALSE]
    /\ UNCHANGED <<ttl_secs, clock, build, net, pc, tok, uri, opts, jwks, res, hist>>

\* JwksCache::get_fresh called directly; the observation is kept in got
GetFresh(u) ==
    /\ got' = [got EXCEPT !.seen = TRUE, !.get_uri = u, !.get_at = now_ts, !.val = get_fresh(cache, u)]
    /\ UNCHANGED <<cache, ttl_secs, clock, build, net, pc, tok, uri, opts, jwks, res, hist>>

\* a second passes
Tick ==
    /\ clock < MaxClock
    /\ clock' = clock + 1
    /\ UNCHANGED <<cache, ttl_secs, build, net, pc, tok, uri, opts, jwks, res, hist, got>>

-----------------------------------------------------------------------------
(* Inputs *)

\* key directories of the running system: one key published under kid "k1"
DirA == <<Jwk("OKP", "Ed25519", "A", "k1")>>
DirB == <<Jwk("OKP", "Ed25519", "B", "k1")>>

\* a header and a payload as the roundtrip test and the example build them
GoodHeader == Header("ok", "EdDSA", "k1")
GoodPayload == Payload("ok", "s1", "i1", AudOne("a1"), None, None, None)
OtherPayload == Payload("ok", "s2", "i1", AudOne("a1"), None, None, None)
DefaultOpts == VerifyOptions(1, None, None, None)

NoObservation == [has_put |-> FALSE, put_uri |-> "u1", put_jwks |-> <<>>, put_at |-> 0, seen |-> FALSE, get_uri |-> "u1", get_at |-> 0, val |-> None]

IdleCallers ==
    /\ pc = [p \in Procs |-> "idle"]
    /\ tok = [p \in Procs |-> NoToken]
    /\ uri = [p \in Procs |-> "u1"]
    /\ opts = [p \in Procs |-> NoOpts]
    /\ jwks = [p \in Procs |-> <<>>]
    /\ res = [p \in Procs |-> NoResult]
    /\ hist = [p \in Procs |-> NoHist]

-----------------------------------------------------------------------------
(* Spec: one caller verifying tokens again and again against a cache that  *)
(* is also pre-seeded directly, while time passes and the transport may    *)
(* fail or serve either directory.                                         *)

MainTokens ==
    { SignedToken("A", GoodHeader, GoodPayload),
      Token(3, GoodHeader, GoodPayload, Sign("A", GoodHeader, OtherPayload)),
      SignedToken("A", Header("ok", "HS256", "k1"), GoodPayload),
      Token(2, GoodHeader, GoodPayload, Sign("A", GoodHeader, GoodPayload)) }

MainResponses == {HttpError, BadDocument, Document(DirA), Document(DirB)}

Init ==
    /\ cache = [u \in Locations |-> NoEntry]
    /\ ttl_secs \in {0, 1}
    /\ clock = 0
    /\ build = "release"
    /\ net = [u \in Locations |-> MainResponses]
    /\ got = NoObservation
    /\ IdleCallers

Step(p) ==
    \/ \E t \in MainTokens, u \in Locations : Call(p, t, u, DefaultOpts)
    \/ Decode(p)
    \/ Lookup(p)
    \/ \E r \in MainResponses : Fetch(p, r)
    \/ Store(p)
    \/ Resolve(p)
    \/ Return(p)

Next ==
    \/ Step(1)
    \/ \E u \in Locations, j \in {DirA, DirB} : Put(u, j)
    \/ Tick

Spec == Init /\ [][Next]_vars

-----------------------------------------------------------------------------
(* SpecCache: a cache built with any TTL, used directly through put and    *)
(* get_fresh while time passes.                                            *)

CacheTTLs == {-1, 0, 1, 2}

InitCache ==
    /\ cache = [u \in Locations |-> NoEntry]
    /\ ttl_secs \in CacheTTLs
    /\ clock = 0
    /\ build = "release"
    /\ net = [u \in Locations |-> {HttpError}]
    /\ got = NoObservation
    /\ IdleCallers

NextCache ==
    \/ \E u \in Locations, j \in {DirA, DirB} : Put(u, j)
    \/ \E u \in Locations : GetFresh(u)
    \/ Tick

SpecCache == InitCache /\ [][NextCache]_vars

\* the observation in got was made right after the put it records: same
\* location, no second elapsed, no other put in between
ImmediatelyAfterPut ==
    /\ got.seen /\ got.has_put
    /\ got.get_uri = got.put_uri
    /\ got.get_at = got.put_at

\* the entry observed by the last get_fresh (the cache has not changed since)
ObservedEntry == cache[got.get_uri]

\* get_fresh answered with the stored directory exactly when an entry existed
\* and its age at the time of the call was within the TTL
FreshExactly ==
    got.seen =>
        got.val = (IF ObservedEntry.present /\ got.get_at - ObservedEntry.fetched_at <= ttl_secs
                   THEN Some(ObservedEntry.jwks) ELSE None)

\* C7 as stated: for a cache built with any ttl, get_fresh right after
\* put(location, directory) returns that directory, and get_fresh returns the
\* stored directory exactly when an entry exists with now - fetched_at <= ttl.
C7_AsStated ==
    /\ ImmediatelyAfterPut => got.val = Some(got.put_jwks)
    /\ FreshExactly

\* C7 amended: the same, with the first part for caches built with ttl >= 0
\* (a negative TTL makes every entry stale from the moment it is stored).
C7_CacheFreshness ==
    /\ (ttl_secs >= 0 /\ ImmediatelyAfterPut) => got.val = Some(got.put_jwks)
    /\ FreshExactly

\* C7 witness: a get_fresh right after a put returned the directory just put
C7_Witness ==
    /\ ImmediatelyAfterPut
    /\ ttl_secs >= 0
    /\ got.val = Some(got.put_jwks)

-----------------------------------------------------------------------------
(* Claims about Spec *)

FetchErrors == {"JwksHttp", "JwksJson"}

\* C8: a call whose fetch fails leaves the cache exactly as it was (nothing
\* added, removed or re-stamped, a stale entry included) and returns a
\* failure that carries no claims; such a call has stored nothing.
C8_FetchFailureFrame ==
    [][\A p \in Procs :
          (pc[p] = "fetch" /\ pc'[p] = "done") =>
              /\ cache' = cache
              /\ res'[p].kind \in FetchErrors
              /\ res'[p].claims = None
              /\ hist'[p].stores = 0]_vars

\* C8 witness: a call has failed on its fetch while a stale entry for its
\* location sits in the cache
C8_Witness ==
    /\ pc[1] = "done"
    /\ res[1].kind \in FetchErrors
    /\ hist[1].fetches = 1
    /\ cache[uri[1]].present
    /\ clock - cache[uri[1]].fetched_at > ttl_secs

-----------------------------------------------------------------------------
(* One verification call on given inputs.  The cache and the transport are *)
(* set up in one of four ways; d is the directory the call will work with. *)
(*   "fresh": d is cached and within the TTL                               *)
(*   "stale": an older, empty directory is cached beyond the TTL and the   *)
(*            transport serves d                                           *)
(*   "miss":  nothing is cached and the transport serves d                 *)
(*   "down":  a stale d is cached and the transport fails either way       *)

Modes == {"fresh", "stale", "miss", "down"}

OneCall(t, o, d, mode) ==
    /\ ttl_secs = 0
    /\ clock = 1
    /\ cache = [u \in Locations |->
                  IF u # "u1" \/ mode = "miss" THEN NoEntry
                  ELSE IF mode = "fresh" THEN JwksCacheEntry(d, 1)
                  ELSE IF mode = "stale" THEN JwksCacheEntry(<<>>, 0)
                  ELSE JwksCacheEntry(d, 0)]
    /\ net = [u \in Locations |->
                  IF mode \in {"stale", "miss"} THEN {Document(d)}
                  ELSE {HttpError, BadDocument}]
    /\ got = NoObservation
    /\ pc = [p \in Procs |-> IF p = 1 THEN "start" ELSE "idle"]
    /\ tok = [p \in Procs |-> IF p = 1 THEN t ELSE NoToken]
    /\ uri = [p \in Procs |-> "u1"]
    /\ opts = [p \in Procs |-> IF p = 1 THEN o ELSE NoOpts]
    /\ jwks = [p \in Procs |-> <<>>]
    /\ res = [p \in Procs |-> NoResult]
    /\ hist = [p \in Procs |-> NoHist]

NextCall ==
    \/ Decode(1)
    \/ Lookup(1)
    \/ \E r \in net[uri[1]] : Fetch(1, r)
    \/ Store(1)
    \/ Resolve(1)

\* the call of caller 1 has returned
Returned == pc[1] = "done"
\* the call got as far as key resolution, in the directory jwks[1]
UsedDirectory == Returned /\ hist[1].resolved = 1

-----------------------------------------------------------------------------
(* SpecKeys: every key directory of up to MaxKeys records against tokens   *)
(* signed by either key under either kid.                                  *)

\* records that pass the kty/crv test, with every kid and key material
EligibleRecords ==
    { Jwk("OKP", "Ed25519", x, kid) :
        x \in {XAbsent, XBadB64, XWrongLen, XBadPoint} \cup Keys,
        kid \in {Absent, "", "k1", "k2"} }
\* records that fail it, holding a good key under the kid the tokens ask for
IneligibleRecords ==
    { Jwk("RSA", Absent, "A", "k1"), Jwk("OKP", "X25519", "A", "k1"), Jwk("OKP", Absent, "A", Absent) }
Records == EligibleRecords \cup IneligibleRecords

Directories == UNION { [1..n -> Records] : n \in 0..MaxKeys }

KeyTokens ==
    { SignedToken(k, Header("ok", "EdDSA", kid), GoodPayload) : k \in Keys, kid \in {"", "k1"} }
    \cup { Token(3, GoodHeader, GoodPayload, Sign("A", GoodHeader, OtherPayload)) }

InitKeys ==
    /\ build = "release"
    /\ \E t \in KeyTokens, d \in Directories, mode \in {"fresh", "miss"} :
          OneCall(t, DefaultOpts, d, mode)

SpecKeys == InitKeys /\ [][NextCall]_vars

-----------------------------------------------------------------------------
(* What the specification asks of tokens, keys and claims, stated over the *)
(* mathematical integers and independently of the code's operators.        *)

\* three segments that decode, alg "EdDSA", a non-empty string kid, a payload
\* of the claim shape, and a signature by key k over the token's own segments
ValidlyConstructed(t) ==
    /\ t.parts = 3
    /\ t.hdr.enc = "ok" /\ t.pld.enc = "ok"
    /\ t.hdr.alg = "EdDSA"
    /\ t.hdr.kid \notin {Absent, NonString, ""}
    /\ t.pld.sub \notin {Absent, NonString}
    /\ t.pld.iss # NonString
    /\ t.pld.aud.k # "bad"
    /\ \E k \in Keys : t.sig = Sign(k, t.hdr, t.pld)

\* the signer's public key is in directory j, in an Ed25519 record whose kid
\* equals the token's kid or is absent or empty
SignerPublished(t, j) ==
    \E i \in 1..Len(j) :
        /\ j[i].kty = "OKP" /\ j[i].crv = "Ed25519"
        /\ j[i].x = t.sig.signer
        /\ j[i].kid \in {t.hdr.kid, Absent, ""}

\* no record of directory j holds the signer's public key
SignerUnknown(t, j) == \A i \in 1..Len(j) : j[i].x # t.sig.signer

\* aud is the expected string, or a list with the expected string in it
AudMatches(a, expected) ==
    \/ a.k = "one" /\ a.v = <<expected>>
    \/ a.k = "many" /\ expected \in {a.v[i] : i \in 1..Len(a.v)}

\* the time the claims are judged at: options.now, else the wall clock
NowOf(o) == IF o.now = None THEN clock ELSE o.now[1]

\* every applicable check of the claim validator holds for claims c
PolicyHolds(c, o) ==
    /\ c.sub # ""
    /\ c.exp = None \/ NowOf(o) <= c.exp[1] + o.leeway_secs
    /\ c.nbf = None \/ NowOf(o) + o.leeway_secs >= c.nbf[1]
    /\ c.iat = None \/ c.iat[1] <= NowOf(o) + o.leeway_secs
    /\ o.issuer = None \/ c.iss = o.issuer[1]
    /\ o.audience = None \/ AudMatches(c.aud, o.audience[1])

\* the call of caller 1 returned Ok with the sub that was signed
AcceptedWithSub == res[1].kind = Ok /\ res[1].claims # None /\ res[1].claims[1].sub = tok[1].pld.sub

-----------------------------------------------------------------------------
(* Claims about SpecKeys *)

\* C1 as stated: for every directory content and record order, a validly
\* constructed token signed with a key published in the fresh cached directory
\* under the token's kid or under no kid, with claims that satisfy the policy,
\* is accepted with the signed sub.
C1_AsStated ==
    ( /\ Returned
      /\ hist[1].src = "cache"
      /\ ValidlyConstructed(tok[1])
      /\ SignerPublished(tok[1], jwks[1])
      /\ PolicyHolds(tok[1].pld, opts[1]) )
    => AcceptedWithSub

\* C3 as stated: a token signed with a key that no record of the directory
\* used for the call holds fails with Signature, and with nothing else.
C3_AsStated ==
    (UsedDirectory /\ SignerUnknown(tok[1], jwks[1])) => res[1].kind = "Signature"

\* C3 amended: such a token is never accepted; it fails with NoKey when key
\* resolution finds no key for its kid, and with Signature when it finds one.
C3_UnknownSignerRejected ==
    (UsedDirectory /\ SignerUnknown(tok[1], jwks[1])) =>
        /\ res[1].kind \in {"Signature", "NoKey"}
        /\ res[1].claims = None
        /\ res[1].kind = "NoKey" <=> key_by_kid(jwks[1], tok[1].hdr.kid) = None

\* C3 witness: a token signed with A was checked against a directory whose
\* matching record holds B, and failed with Signature
C3_Witness ==
    /\ UsedDirectory
    /\ SignerUnknown(tok[1], jwks[1])
    /\ Len(jwks[1]) > 0
    /\ key_by_kid(jwks[1], tok[1].hdr.kid) # None
    /\ tok[1].sig = Sign("A", tok[1].hdr, tok[1].pld)
    /\ res[1].kind = "Signature"

\* record k is eligible, matches the requested kid and carries a usable key
UsableMatch(k, kid) ==
    /\ k.kty = "OKP" /\ k.crv = "Ed25519"
    /\ k.kid \in {kid, Absent, ""}
    /\ k.x \in Keys

\* C11 as stated: an eligible matching record with unusable key material is
\* passed over and resolution goes on with the next record, so a call that
\* resolves a key in a directory ends NoKey exactly when no record of the whole
\* directory is an eligible match with a usable key.
C11_AsStated ==
    UsedDirectory =>
        (res[1].kind = "NoKey" <=>
            ~\E i \in 1..Len(jwks[1]) : UsableMatch(jwks[1][i], tok[1].hdr.kid))

-----------------------------------------------------------------------------
(* SpecHeader: tokens of every segment count, header, payload and          *)
(* signature form, against every state of the cache and the transport.     *)

\* a directory whose only key carries no kid
DirWild == <<Jwk("OKP", "Ed25519", "A", Absent)>>

Headers ==
    { Header(e, a, k) :
        e \in {"ok", "badb64", "badjson"},
        a \in {Absent, NonString, "EdDSA", "HS256", "eddsa"},
        k \in {Absent, NonString, "", "k1"} }

HeaderPayloads ==
    { GoodPayload,
      Payload("badb64", Absent, Absent, NoAud, None, None, None),
      Payload("badjson", Absent, Absent, NoAud, None, None, None),
      Payload("ok", Absent, Absent, NoAud, None, None, None),
      Payload("ok", "s1", Absent, NoAud, Some(-1), None, None) }

\* the signature segments a token over h and p can carry
Signatures(h, p) ==
    { Sig("badb64", "none", <<>>), Sig("badlen", "none", <<>>),
      Sign("A", h, p), Sign("B", h, p), Sign("A", h, OtherPayload) }

InitHeader ==
    /\ build = "release"
    /\ \E n \in {2, 3, 4}, h \in Headers, p \in HeaderPayloads, mode \in Modes, d \in {DirA, DirWild} :
         \E sg \in Signatures(h, p) :
            OneCall(Token(n, h, p, sg), VerifyOptions(0, None, None, None), d, mode)

SpecHeader == InitHeader /\ [][NextCall]_vars

\* the token of caller 1 passes split_and_decode: three segments, header and
\* payload decode to JSON, the signature segment decodes to 64 bytes
Decodes(t) ==
    /\ t.parts = 3
    /\ t.hdr.enc = "ok" /\ t.pld.enc = "ok" /\ t.sig.enc = "ok"

\* the call ended before the cache was consulted or anything fetched
NeverReachedCache(p) ==
    /\ hist[p].looked = 0 /\ hist[p].fetches = 0
    /\ hist[p].stores = 0 /\ hist[p].resolved = 0

\* C2 as stated: every three-segment token whose header carries an alg other
\* than "EdDSA", or no string alg, fails with Alg, whatever its signature
\* segment, the cache and the claims.
C2_AsStated ==
    (Returned /\ tok[1].parts = 3 /\ tok[1].hdr.enc = "ok" /\ tok[1].hdr.alg # "EdDSA")
    => res[1].kind = "Alg"

\* C2 amended: every token that passes decoding (three segments, header and
\* payload that decode to JSON, a signature segment of 64 bytes) and whose
\* header alg is not the string "EdDSA" fails with Alg, whoever signed it and
\* whatever the cache holds and the claims say; the cache is not consulted.
C2_AlgAllowList ==
    (Returned /\ Decodes(tok[1]) /\ tok[1].hdr.alg # "EdDSA")
    => (res[1].kind = "Alg" /\ res[1].claims = None /\ NeverReachedCache(1))

\* C2 witness: a token validly signed by the published key, with valid claims
\* and a fresh cache, was refused with Alg for its alg "HS256"
C2_Witness ==
    /\ Returned
    /\ tok[1].hdr.alg = "HS256"
    /\ tok[1].sig = Sign("A", tok[1].hdr, tok[1].pld)
    /\ tok[1].pld = GoodPayload
    /\ get_fresh(cache, "u1") = Some(DirA)
    /\ res[1].kind = "Alg"

\* C10 as stated: every token that passes decoding and the alg check and whose
\* header has no kid, or an empty kid, fails with Kid, and key resolution is
\* never attempted for it.
C10_AsStated ==
    (Returned /\ Decodes(tok[1]) /\ tok[1].hdr.alg = "EdDSA" /\ tok[1].hdr.kid \in {Absent, NonString, ""})
    => (res[1].kind = "Kid" /\ hist[1].resolved = 0)

-----------------------------------------------------------------------------
(* SpecClaims: tokens validly signed by the published key, with every      *)
(* combination of time claims, leeway and current time over the whole      *)
(* integer range and both build profiles, and every combination of sub,    *)
(* iss, aud and the expected issuer and audience.                          *)

OptI64 == {None} \cup {Some(n) : n \in I64}

AudValues ==
    { NoAud, [k |-> "bad", v |-> <<>>],
      AudOne("a1"), AudOne("a2"),
      AudMany(<<>>), AudMany(<<"a1">>), AudMany(<<"a2">>), AudMany(<<"a2", "a1">>), AudMany(<<"a2", "a3">>) }

InitTimeClaims ==
    /\ build \in {"debug", "release"}
    /\ \E exp \in OptI64, nbf \in OptI64, iat \in OptI64, lw \in I64, now \in OptI64 :
          OneCall(SignedToken("A", GoodHeader, Payload("ok", "s1", Absent, NoAud, exp, nbf, iat)),
                  VerifyOptions(lw, None, None, now), DirA, "fresh")

InitIdentityClaims ==
    /\ build = "release"
    /\ \E sub \in {Absent, NonString, "", "s1"}, iss \in {Absent, NonString, "i1", "i2"}, aud \in AudValues,
          exp \in {None, Some(0)}, issuer \in {None, Some("i1")}, audience \in {None, Some("a1")},
          mode \in {"fresh", "miss"} :
          OneCall(SignedToken("A", GoodHeader, Payload("ok", sub, iss, aud, exp, None, None)),
                  VerifyOptions(0, issuer, audience, None), DirA, mode)

InitClaims == InitTimeClaims \/ InitIdentityClaims

SpecClaims == InitClaims /\ [][NextCall]_vars

\* the claims of caller 1's token with one time claim left out
WithoutExp(c) == [c EXCEPT !.exp = None]
WithoutNbf(c) == [c EXCEPT !.nbf = None]

\* caller 1's token is validly signed by the key the directory resolves, and
\* its call has returned
ReturnedSigned ==
    /\ UsedDirectory
    /\ ValidlyConstructed(tok[1])
    /\ key_by_kid(jwks[1], tok[1].hdr.kid) = Some(tok[1].sig.signer)

\* the token carries none of exp, nbf, iat
NoTimeClaims(c) == c.exp = None /\ c.nbf = None /\ c.iat = None

\* C4 as stated: for every now and leeway, an otherwise valid, validly signed
\* token with exp present is rejected as Expired exactly when
\* now > exp + leeway, and is accepted otherwise; so exp = now - leeway - 1
\* is Expired and exp = now - leeway is accepted.
C4_AsStated ==
    (ReturnedSigned /\ tok[1].pld.exp # None /\ PolicyHolds(WithoutExp(tok[1].pld), opts[1])) =>
        IF NowOf(opts[1]) > tok[1].pld.exp[1] + opts[1].leeway_secs
        THEN res[1].kind = "Expired"
        ELSE res[1].kind = Ok

\* C5 as stated: for every now and leeway, an otherwise valid, validly signed
\* token with nbf present is rejected as NotYetValid exactly when
\* now + leeway < nbf, and is accepted otherwise; so nbf = now + leeway + 1
\* is NotYetValid and nbf = now + leeway is accepted.
C5_AsStated ==
    (ReturnedSigned /\ tok[1].pld.nbf # None /\ PolicyHolds(WithoutNbf(tok[1].pld), opts[1])) =>
        IF NowOf(opts[1]) + opts[1].leeway_secs < tok[1].pld.nbf[1]
        THEN res[1].kind = "NotYetValid"
        ELSE res[1].kind = Ok

\* C6: with an expected audience configured, a call fails with Audience only
\* when aud is absent, another single string or a list without the expected
\* value, and ends Ok only when aud is that string or a list holding it; with
\* none configured it never fails with Audience.  A validly signed token
\* without time claims that passes the sub and issuer checks ends Ok or
\* Audience, so for it the match alone decides.
C6_AudienceMatching ==
    Returned =>
        /\ res[1].kind = "Audience" =>
              /\ opts[1].audience # None
              /\ ~AudMatches(tok[1].pld.aud, opts[1].audience[1])
        /\ res[1].kind = Ok =>
              \/ opts[1].audience = None
              \/ AudMatches(tok[1].pld.aud, opts[1].audience[1])
        /\ (ReturnedSigned /\ NoTimeClaims(tok[1].pld) /\ PolicyHolds(tok[1].pld, [opts[1] EXCEPT !.audience = None])) =>
              res[1].kind \in {Ok, "Audience"}

\* C6 witness: with audience "a1" expected, a token whose aud is the list
\* <<"a2", "a1">> was accepted
C6_Witness ==
    /\ Returned
    /\ opts[1].audience = Some("a1")
    /\ tok[1].pld.aud = AudMany(<<"a2", "a1">>)
    /\ res[1].kind = Ok

\* C9 as stated: whenever verification returns a claim set, every applicable
\* check holds for it: sub non-empty, exp absent or now <= exp + leeway, nbf
\* absent or now + leeway >= nbf, iat absent or iat <= now + leeway, issuer not
\* configured or equal to iss, audience not configured or matched by aud.
C9_AsStated ==
    (Returned /\ res[1].kind = Ok) =>
        /\ res[1].claims # None
        /\ PolicyHolds(res[1].claims[1], opts[1])

-----------------------------------------------------------------------------
(* SpecRace: two callers inside verify_ed25519_jwt_with_cache at once on   *)
(* one cache, each step taken under the cache's lock being one action,     *)
(* interleaved with direct puts and with the passing of time.  The         *)
(* transport may serve either directory to either caller, or fail.         *)

RaceResponses == {HttpError, Document(DirA), Document(DirB)}

InitRace ==
    /\ build = "release"
    /\ ttl_secs \in {0, 1}
    /\ clock = 0
    /\ cache = [u \in Locations |-> NoEntry]
    /\ net = [u \in Locations |-> RaceResponses]
    /\ got = NoObservation
    /\ pc = [p \in Procs |-> "start"]
    /\ tok = [p \in Procs |-> SignedToken("A", GoodHeader, GoodPayload)]
    /\ uri \in [Procs -> Locations]
    /\ opts = [p \in Procs |-> DefaultOpts]
    /\ jwks = [p \in Procs |-> <<>>]
    /\ res = [p \in Procs |-> NoResult]
    /\ hist = [p \in Procs |-> NoHist]

StepRace(p) ==
    \/ Decode(p)
    \/ Lookup(p)
    \/ \E r \in net[uri[p]] : Fetch(p, r)
    \/ Store(p)
    \/ Resolve(p)

NextRace ==
    \/ \E p \in Procs : StepRace(p)
    \/ \E u \in Locations, j \in {DirA, DirB} : Put(u, j)
    \/ Tick

SpecRace == InitRace /\ [][NextRace]_vars

\* caller p takes its store step / its cache-read step with a hit
Storing(p) == pc[p] = "store" /\ pc'[p] = "resolve"
Hitting(p) == pc[p] = "lookup" /\ pc'[p] = "resolve"
\* a direct put on location u takes place
DirectPut(u) == got'.has_put /\ got'.put_uri = u /\ got'.put_at = clock /\ pc' = pc

\* the directories that are ever handed to a put or served by the transport
WholeDirectories == {DirA, DirB}

\* C12: under every interleaving of two verification calls and direct puts on
\* one cache, an entry changes only by being replaced with the whole pair
\* (directory, current time) of one put, the caller's store or a direct put;
\* a cache hit hands the caller the directory of the entry then present and
\* within the TTL; a store made after the other caller's store on the same
\* location leaves its own pair in the cache; and every caller that goes on to
\* key resolution does so with a complete directory.
C12_WholeEntries ==
    [][ /\ \A u \in Locations :
              cache'[u] # cache[u] =>
                  \/ \E p \in Procs :
                        Storing(p) /\ uri[p] = u /\ cache'[u] = JwksCacheEntry(jwks[p], clock)
                  \/ DirectPut(u) /\ cache'[u] = JwksCacheEntry(got'.put_jwks, clock)
        /\ \A p \in Procs :
              Hitting(p) =>
                  /\ cache[uri[p]].present
                  /\ clock - cache[uri[p]].fetched_at <= ttl_secs
                  /\ jwks'[p] = cache[uri[p]].jwks
        /\ \A p, q \in Procs :
              (p # q /\ Storing(p) /\ hist[q].stores = 1 /\ uri[q] = uri[p]) =>
                  /\ cache'[uri[p]] = JwksCacheEntry(jwks[p], clock)
                  /\ jwks' = jwks
        /\ \A p \in Procs :
              pc'[p] = "resolve" => jwks'[p] \in WholeDirectories ]_vars

\* C12 witness: both callers missed on the same location, fetched different
\* directories and stored them, caller 2 last at a later second; the entry is
\* caller 2's pair, and caller 1 was accepted with the directory it fetched
C12_Witness ==
    /\ pc[1] = "done" /\ pc[2] = "done"
    /\ uri[1] = uri[2]
    /\ hist[1].stores = 1 /\ hist[2].stores = 1
    /\ ~got.has_put
    /\ jwks[1] = DirA /\ jwks[2] = DirB
    /\ cache[uri[1]] = JwksCacheEntry(DirB, clock)
    /\ clock > 0
    /\ res[1].kind = Ok /\ res[2].kind = "Signature"

-----------------------------------------------------------------------------
(* SpecStages: tokens that fail at each stage of the call, and at several  *)
(* at once: every pairing of a header, a payload and a signature segment   *)
(* below, against every state of the cache and the transport, with an      *)
(* expected issuer and audience configured.                                *)

StageHeaders ==
    { GoodHeader,
      Header("badjson", Absent, Absent),
      Header("ok", "HS256", "k1"),
      Header("ok", "EdDSA", Absent),
      Header("ok", "EdDSA", "k2") }

\* payloads: one that passes, and one for each way of failing later
StagePayloads ==
    { GoodPayload,
      Payload("badjson", Absent, Absent, NoAud, None, None, None),
      Payload("ok", Absent, "i1", AudOne("a1"), None, None, None),
      Payload("ok", "", "i1", AudOne("a1"), None, None, None),
      Payload("ok", "s1", "i1", AudOne("a1"), Some(0), None, None),
      Payload("ok", "s1", "i1", AudOne("a1"), None, Some(2), None),
      Payload("ok", "s1", "i1", AudOne("a1"), None, None, Some(2)),
      Payload("ok", "s1", "i2", AudOne("a1"), None, None, None),
      Payload("ok", "s1", "i1", AudOne("a2"), None, None, None) }

StageOpts == VerifyOptions(0, Some("i1"), Some("a1"), None)

InitStages ==
    /\ build = "release"
    /\ \E n \in {2, 3}, h \in StageHeaders, p \in StagePayloads, mode \in Modes, d \in {DirA, DirB} :
         \E sg \in Signatures(h, p) :
            OneCall(Token(n, h, p, sg), StageOpts, d, mode)

SpecStages == InitStages /\ [][NextCall]_vars

\* the failure kinds of the three last stages
ClaimKinds == {"MissingSub", "Expired", "NotYetValid", "Issuer", "Audience"}

\* the call failed at ParseClaims: Json reported after key resolution
FailedAtParseClaims == res[1].kind = "Json" /\ hist[1].resolved = 1

\* the call obtained no directory: its fetch failed
NoDirectory == hist[1].fetches = 1 /\ hist[1].src = "none"

\* the signature segment of t is not a signature over t's own header and
\* payload segments by the key that directory j gives for t's kid
SignatureInvalid(t, j) ==
    \/ key_by_kid(j, t.hdr.kid) = None
    \/ t.sig # Sign(key_by_kid(j, t.hdr.kid)[1], t.hdr, t.pld)

\* the outcome of the earliest failing stage of the call of caller 1, in the
\* order Decode, CheckAlg, CheckKid, ResolveKey, VerifySignature,
\* ParseClaims, ValidateClaims
EarliestFailure ==
    LET t == tok[1]
    IN  IF t.parts # 3 THEN {"BadFormat"}
        ELSE IF ~Decodes(t) THEN {"Base64", "Signature", "Json"}
        ELSE IF t.hdr.alg # "EdDSA" THEN {"Alg"}
        ELSE IF t.hdr.kid \in {Absent, NonString} THEN {"Kid"}
        ELSE IF NoDirectory THEN FetchErrors
        ELSE IF key_by_kid(jwks[1], t.hdr.kid) = None THEN {"NoKey"}
        ELSE IF SignatureInvalid(t, jwks[1]) THEN {"Signature"}
        ELSE IF t.pld.sub \in {Absent, NonString} THEN {"Json"}
        ELSE IF ~PolicyHolds(t.pld, opts[1]) THEN ClaimKinds
        ELSE {Ok}

\* C13: the stages run in the order Decode, CheckAlg, CheckKid, ResolveKey,
\* VerifySignature, ParseClaims, ValidateClaims and the call stops at the
\* first that fails, so the failure reported is that of the earliest failing
\* stage; a token whose signature does not verify is never reported as Json
\* at ParseClaims, MissingSub, Expired, NotYetValid, Issuer or Audience, and
\* its claims are never returned.
C13_StageOrder ==
    Returned =>
        /\ res[1].kind \in EarliestFailure
        /\ (res[1].kind # Ok) => res[1].claims = None
        /\ (Decodes(tok[1]) /\ SignatureInvalid(tok[1], jwks[1])) =>
              /\ res[1].kind \notin ClaimKinds \cup {Ok}
              /\ ~FailedAtParseClaims
              /\ res[1].claims = None

\* C13 witness: a token signed with a key other than the published one, whose
\* claims have expired, was reported as Signature
C13_Witness ==
    /\ UsedDirectory
    /\ tok[1].sig = Sign("B", tok[1].hdr, tok[1].pld)
    /\ jwks[1] = DirA
    /\ tok[1].pld.exp = Some(0)
    /\ res[1].kind = "Signature"

-----------------------------------------------------------------------------
(* Further claims about SpecHeader *)

\* the failure kinds of Decode, CheckAlg and CheckKid
EarlyKinds == {"BadFormat", "Base64", "Json", "Signature", "Alg", "Kid"}

\* token t fails Decode, CheckAlg or CheckKid
RejectedEarly(t) ==
    \/ ~Decodes(t)
    \/ t.hdr.alg # "EdDSA"
    \/ t.hdr.kid \in {Absent, NonString}

\* C14: a token that fails Decode, CheckAlg or CheckKid is rejected in the
\* first step of its call with BadFormat, Base64, Json, Signature (size), Alg
\* or Kid; the call has not read the cache, has fetched and stored nothing and
\* leaves the cache as it was.  A token that does not have three segments is
\* rejected with BadFormat whatever its segments hold.
C14_EarlyRejectFrame ==
    [][ \A p \in Procs :
          (pc[p] = "start" /\ RejectedEarly(tok[p])) =>
              /\ pc'[p] = "done"
              /\ res'[p].kind \in EarlyKinds
              /\ res'[p].claims = None
              /\ tok[p].parts # 3 => res'[p].kind = "BadFormat"
              /\ hist'[p] = NoHist
              /\ cache' = cache ]_vars

\* C14 witness: a four-segment token whose header segment is not base64 was
\* rejected with BadFormat while a fresh directory sat in the cache, unread
C14_Witness ==
    /\ Returned
    /\ tok[1].parts = 4
    /\ tok[1].hdr.enc = "badb64"
    /\ res[1].kind = "BadFormat"
    /\ hist[1] = NoHist
    /\ get_fresh(cache, "u1") # None

-----------------------------------------------------------------------------
(* Further claims about SpecKeys *)

\* C15 as stated: a call that misses the cache makes exactly one fetch
\* attempt; a call left without a directory by its fetch reports JwksHttp or
\* JwksJson, never NoKey; and NoKey is reported only when a directory was
\* obtained, from the cache or the fetch, and no record of it is an eligible
\* match with a usable key.
C15_AsStated ==
    Returned =>
        /\ hist[1].fetches <= 1
        /\ (hist[1].looked = 1 /\ hist[1].src # "cache") => hist[1].fetches = 1
        /\ NoDirectory => res[1].kind \in FetchErrors
        /\ res[1].kind = "NoKey" =>
              /\ UsedDirectory
              /\ ~\E i \in 1..Len(jwks[1]) : UsableMatch(jwks[1][i], tok[1].hdr.kid)

-----------------------------------------------------------------------------
(* Further claims about SpecRace *)

\* the entry of caller p's location is present and within the TTL now
FreshNow(p) ==
    /\ cache[uri[p]].present
    /\ clock - cache[uri[p]].fetched_at <= ttl_secs

\* caller p takes a step
Moves(p) == pc'[p] # pc[p]

\* the directories the transport can serve for caller p's location
Served(p) == {r.jwks : r \in {x \in net[uri[p]] : x.kind = "ok"}}

\* C16: a stale directory is never used.  A call reaches key resolution only
\* from a cache read that found an entry within the TTL at that moment, with
\* that entry's directory, or from its own store, with the directory it
\* fetched itself; a read that finds the entry stale or missing goes on to
\* fetch; the store replaces the entry of the location by the fetched
\* directory stamped with the current time; and key resolution works on the
\* directory so obtained.
C16_NoStaleDirectory ==
    [][ \A p \in Procs :
          /\ (pc'[p] = "resolve" /\ Moves(p)) => pc[p] \in {"lookup", "store"}
          /\ (pc[p] = "lookup" /\ pc'[p] = "resolve") =>
                /\ FreshNow(p)
                /\ jwks'[p] = cache[uri[p]].jwks
                /\ cache' = cache
          /\ (pc[p] = "lookup" /\ Moves(p) /\ ~FreshNow(p)) =>
                /\ pc'[p] = "fetch"
                /\ cache' = cache
          /\ (pc[p] = "fetch" /\ pc'[p] = "store") => jwks'[p] \in Served(p)
          /\ (pc[p] = "store" /\ Moves(p)) =>
                /\ pc'[p] = "resolve"
                /\ jwks'[p] = jwks[p]
                /\ cache' = [cache EXCEPT ![uri[p]] = JwksCacheEntry(jwks[p], clock)]
          /\ (pc[p] = "resolve" /\ Moves(p)) =>
                /\ jwks'[p] = jwks[p]
                /\ res'[p].kind = "NoKey" <=> key_by_kid(jwks[p], tok[p].hdr.kid) = None
                /\ res'[p].kind = Ok <=> key_by_kid(jwks[p], tok[p].hdr.kid) = Some(tok[p].sig.signer) ]_vars

\* C16 witness: with a TTL of 0, directory B was put for the location at
\* second 0; caller 1 did not use it but fetched directory A, stored it at
\* second 1 and was accepted with it
C16_Witness ==
    /\ ttl_secs = 0
    /\ got.has_put /\ got.put_uri = uri[1] /\ got.put_jwks = DirB /\ got.put_at = 0
    /\ pc[1] = "done" /\ pc[2] = "start"
    /\ hist[1].src = "fetch" /\ hist[1].stores = 1
    /\ jwks[1] = DirA
    /\ cache[uri[1]] = JwksCacheEntry(DirA, 1)
    /\ res[1].kind = Ok

-----------------------------------------------------------------------------
(* Further claims about SpecClaims *)

\* caller 1's token passed decoding and carries the signature of the key the
\* directory resolves over its own segments, and its call has returned
ReturnedVerified ==
    /\ UsedDirectory
    /\ Decodes(tok[1])
    /\ key_by_kid(jwks[1], tok[1].hdr.kid) # None
    /\ tok[1].sig = Sign(key_by_kid(jwks[1], tok[1].hdr.kid)[1], tok[1].hdr, tok[1].pld)

\* the claims of payload p other than sub have the types of the claim shape
OtherClaimsTyped(p) == p.iss # NonString /\ p.aud.k # "bad"

\* C17: for a validly signed token, a payload without sub or with a sub that
\* is not a string fails at ParseClaims with Json; a payload whose sub is the
\* empty string (its other claims being of the right types) parses and is
\* rejected with MissingSub, whatever its other claims say; none of the three
\* is ever accepted.
C17_SubParsing ==
    ReturnedVerified =>
        /\ tok[1].pld.sub \in {Absent, NonString} =>
              (FailedAtParseClaims /\ res[1].claims = None)
        /\ (tok[1].pld.sub = "" /\ OtherClaimsTyped(tok[1].pld)) =>
              (res[1].kind = "MissingSub" /\ res[1].claims = None)
        /\ tok[1].pld.sub \in {Absent, NonString, ""} => res[1].kind # Ok

\* C17 witness: a validly signed token with sub "", expired and from another
\* issuer than the expected one, was rejected with MissingSub
C17_Witness ==
    /\ ReturnedVerified
    /\ tok[1].pld.sub = ""
    /\ tok[1].pld.exp = Some(0)
    /\ tok[1].pld.iss = "i2" /\ opts[1].issuer = Some("i1")
    /\ res[1].kind = "MissingSub"

-----------------------------------------------------------------------------
(* SpecFresh: one call against a directory stored at second 0, under TTLs  *)
(* of 0, 1 and 2 seconds, while time passes; the transport could serve     *)
(* either directory if asked.                                              *)

FreshTTLs == {0, 1, 2}

InitFresh ==
    /\ build = "release"
    /\ ttl_secs \in FreshTTLs
    /\ clock = 0
    /\ \E d \in {DirA, DirWild, <<>>} :
          cache = [u \in Locations |-> IF u = "u1" THEN JwksCacheEntry(d, 0) ELSE NoEntry]
    /\ net = [u \in Locations |-> MainResponses]
    /\ got = NoObservation
    /\ pc = [p \in Procs |-> IF p = 1 THEN "start" ELSE "idle"]
    /\ tok \in {[p \in Procs |-> IF p = 1 THEN t ELSE NoToken] : t \in KeyTokens}
    /\ uri = [p \in Procs |-> "u1"]
    /\ opts = [p \in Procs |-> IF p = 1 THEN DefaultOpts ELSE NoOpts]
    /\ jwks = [p \in Procs |-> <<>>]
    /\ res = [p \in Procs |-> NoResult]
    /\ hist = [p \in Procs |-> NoHist]

NextFresh == NextCall \/ Tick

SpecFresh == InitFresh /\ [][NextFresh]_vars

\* C18: a call that finds a fresh entry for its location performs no fetch
\* and leaves the cache as it is, whatever its outcome: the hit does not stamp
\* the entry again, the call goes from the hit to key resolution and from
\* there to its result, and when the cached directory has no key for the
\* token's kid the result is NoKey, with nothing fetched or stored.
C18_HitFrame ==
    [][ \A p \in Procs :
          /\ Hitting(p) =>
                /\ cache' = cache
                /\ hist'[p].src = "cache"
          /\ (hist[p].src = "cache" /\ Moves(p)) =>
                /\ pc[p] = "resolve" /\ pc'[p] = "done"
                /\ cache' = cache
                /\ hist'[p].fetches = 0 /\ hist'[p].stores = 0
                /\ key_by_kid(jwks[p], tok[p].hdr.kid) = None => res'[p].kind = "NoKey" ]_vars

\* C18 witness: with a TTL of 1, a call hit the directory stored at second 0,
\* found no key for its kid in it and ended NoKey at second 1 with nothing
\* fetched; the entry still carries the stamp 0
C18_Witness ==
    /\ Returned
    /\ ttl_secs = 1 /\ clock = 1
    /\ hist[1].src = "cache" /\ hist[1].fetches = 0 /\ hist[1].stores = 0
    /\ res[1].kind = "NoKey"
    /\ cache["u1"] = JwksCacheEntry(jwks[1], 0)
    /\ Len(jwks[1]) > 0

-----------------------------------------------------------------------------
(* Further claims about SpecStages *)

\* the failures a call can end with after it has obtained a directory
LateKinds == {"NoKey", "Signature", "Json"} \cup ClaimKinds

\* C19: the fetched directory is stored before key resolution and signature
\* verification: at the store nothing has been resolved and no result exists,
\* and the store leaves (fetched directory, current time) as the entry of the
\* location; the steps that follow do not touch the cache, so when the call
\* returns, with Ok or with NoKey, Signature, Json or a claim-validation
\* failure, the cache holds the fetched directory with the stamp of the store.
C19_StoreBeforeVerify ==
    [][ \A p \in Procs :
          /\ Storing(p) =>
                /\ hist[p].resolved = 0 /\ res[p] = NoResult
                /\ cache'[uri[p]] = JwksCacheEntry(jwks[p], clock)
          /\ (pc[p] = "resolve" /\ Moves(p) /\ hist[p].src = "fetch") =>
                /\ pc'[p] = "done"
                /\ res'[p].kind \in LateKinds \cup {Ok}
                /\ cache' = cache
                /\ cache'[uri[p]].present
                /\ cache'[uri[p]].jwks = jwks[p]
                /\ cache'[uri[p]].fetched_at <= clock ]_vars

\* C19 witness: a call that missed, fetched and stored directory A returned
\* Expired for its token, and the cache holds directory A with the stamp of
\* the store
C19_Witness ==
    /\ Returned
    /\ hist[1].fetches = 1 /\ hist[1].stores = 1
    /\ res[1].kind = "Expired"
    /\ jwks[1] = DirA
    /\ cache["u1"] = JwksCacheEntry(DirA, clock)

-----------------------------------------------------------------------------
(* The arithmetic of check_claims *)

\* the three time-window comparisons over the mathematical integers
TimeWindowHolds(c, o) ==
    /\ c.exp = None \/ NowOf(o) <= c.exp[1] + o.leeway_secs
    /\ c.nbf = None \/ NowOf(o) + o.leeway_secs >= c.nbf[1]
    /\ c.iat = None \/ c.iat[1] <= NowOf(o) + o.leeway_secs

\* the checks of sub, issuer and audience
IdentityHolds(c, o) ==
    /\ c.sub # ""
    /\ o.issuer = None \/ c.iss = o.issuer[1]
    /\ o.audience = None \/ AudMatches(c.aud, o.audience[1])

\* C20 as stated: for all values of exp, nbf, iat, leeway and now in the
\* integer range, a validly signed token whose sub, issuer and audience pass
\* is accepted when the time-window comparisons hold over the unbounded
\* integers and is not accepted when they do not; no sum wraps or aborts so
\* as to change the verdict.
C20_AsStated ==
    (ReturnedSigned /\ IdentityHolds(tok[1].pld, opts[1])) =>
        IF TimeWindowHolds(tok[1].pld, opts[1])
        THEN res[1].kind = Ok
        ELSE res[1].kind # Ok

====
